---- MODULE Spec2Model ----
(***************************************************************************)
(* SVSM secondary-processor bring-up (src/src/cpu/smp.rs) and the          *)
(* control-register baseline (src/src/cpu/control_regs.rs).                *)
(*                                                                         *)
(* Two specifications share the variables:                                *)
(*   Spec    the bring-up protocol: the orchestrator (BSP) running         *)
(*           start_secondary_cpus / start_cpu, the hypervisor scheduling   *)
(*           launched contexts, and every AP running start_ap;             *)
(*   SpecCR  one processor applying cr0_init / cr4_init to arbitrary       *)
(*           register contents.                                            *)
(* A register value is the set of the bit positions (0..63) that are set.  *)
(***************************************************************************)
EXTENDS Integers, Sequences, FiniteSets, TLC

\* ------------------------------------------------------------------ bounds
MaxCpus      == 4   \* longest descriptor list
MaxApicId    == 3   \* largest processor identifier in a descriptor
MaxInitCalls == 2   \* applications of each baseline routine in SpecCR
MaxFairCpus  == 3   \* longest descriptor list of SpecFair

\* ------------------------------------------------- control_regs.rs: flags
CR0Flags_PE == 0
CR0Flags_MP == 1
CR0Flags_EM == 2
CR0Flags_TS == 3
CR0Flags_ET == 4
CR0Flags_NE == 5
CR0Flags_WP == 16
CR0Flags_AM == 18
CR0Flags_NW == 29
CR0Flags_CD == 30
CR0Flags_PG == 31

\* every bit the bitflags! struct CR0Flags names
CR0Flags ==
    {CR0Flags_PE, CR0Flags_MP, CR0Flags_EM, CR0Flags_TS, CR0Flags_ET,
     CR0Flags_NE, CR0Flags_WP, CR0Flags_AM, CR0Flags_NW, CR0Flags_CD,
     CR0Flags_PG}

CR4Flags_PSE == 4
CR4Flags_PAE == 5
CR4Flags_PGE == 7
CR4Flags_SMEP == 20

\* every bit the bitflags! struct CR4Flags names
CR4Flags ==
    {0, 1, 2, 3, CR4Flags_PSE, CR4Flags_PAE, 6, CR4Flags_PGE, 8, 9, 10, 11,
     16, 17, 18, CR4Flags_SMEP, 21, 22, 23}

\* The bits the initial register contents of SpecCR are drawn over: named
\* flags and, last, one bit of the register the flag struct does not name
\* (bit 6 of CR0, bit 12 of CR4).
CR0ProbeBits ==
    {CR0Flags_PE, CR0Flags_WP, CR0Flags_NW, CR0Flags_CD, CR0Flags_PG, 6}
CR4ProbeBits ==
    {CR4Flags_PSE, CR4Flags_PAE, CR4Flags_PGE, CR4Flags_SMEP, 12}

\* bitflags: from_bits_truncate drops every bit the struct does not name
from_bits_truncate(all, raw) == raw \cap all
\* bitflags: bits() is the raw value of the flags
bits(flags) == flags
insert(flags, f) == flags \cup {f}
remove(flags, f) == flags \ {f}

read_cr0(reg)  == from_bits_truncate(CR0Flags, reg)
write_cr0(cr0) == bits(cr0)
read_cr4(reg)  == from_bits_truncate(CR4Flags, reg)
write_cr4(cr4) == bits(cr4)

\* cr0_init as a function of the register content: the content it leaves
cr0_init_keepCD(reg) ==
    LET r0 == read_cr0(reg)
        r1 == insert(r0, CR0Flags_WP)
        r2 == remove(r1, CR0Flags_NW)
    IN  write_cr0(r2)

cr0_init_toggleWP(reg) ==
    LET r0 == read_cr0(reg)
        r1 == IF CR0Flags_WP \in r0 THEN remove(r0, CR0Flags_WP)
                                    ELSE insert(r0, CR0Flags_WP)
        r2 == remove(r1, CR0Flags_NW)
        r3 == remove(r2, CR0Flags_CD)
    IN  write_cr0(r3)

cr0_init(reg) ==
    LET r0 == read_cr0(reg)
        r1 == insert(r0, CR0Flags_WP)
        r2 == remove(r1, CR0Flags_NW)
        r3 == remove(r2, CR0Flags_CD)
    IN  write_cr0(r3)

\* cr4_init; has_pge is the answer of cpu_has_pge()
cr4_init_alwaysPGE(reg, has_pge) ==
    LET r0 == read_cr4(reg)
        r1 == insert(r0, CR4Flags_PSE)
        r2 == insert(r1, CR4Flags_PGE)
    IN  write_cr4(r2)

cr4_init(reg, has_pge) ==
    LET r0 == read_cr4(reg)
        r1 == insert(r0, CR4Flags_PSE)
        r2 == IF has_pge THEN insert(r1, CR4Flags_PGE) ELSE r1
    IN  write_cr4(r2)

\* ------------------------------------------------------------- variables
VARIABLES
    cpus,        \* start_secondary_cpus: the descriptor list (&Vec<ACPICPUInfo>)
    pc,          \* orchestrator: the statement it is at
    it,          \* start_secondary_cpus: descriptors the iterator has consumed
    cur,         \* index in cpus of the descriptor c of the running iteration
    count,       \* start_secondary_cpus: local count
    percpus,     \* the control blocks, in allocation order
    sev_features,\* start_cpu: local sev_features
    vmsa_pa,     \* start_cpu: local vmsa_pa
    requests,    \* ap_create calls made on the orchestrator's GHCB, in order
    panic_msg,   \* orchestrator: message of the expect() that ended it
    ap_pc,       \* per control block: where the processor started from it is
    writers,     \* per control block: who has written its online flag
    observed,    \* control blocks whose online flag the poll has seen set
    ap_state,    \* per control block: the registers and setup of its processor
    started,     \* the start_cpu calls begun, with the result of their alloc
    cr0,         \* SpecCR: register CR0
    cr4,         \* SpecCR: register CR4
    has_pge,     \* SpecCR: answer of cpu_has_pge()
    cr0_hist,    \* SpecCR: CR0 before the first cr0_init and after each one
    cr4_hist,    \* SpecCR: CR4 before the first cr4_init and after each one
    sec_source,  \* SpecSec: the bytes at the source address
    sec_target,  \* SpecSec: the bytes of *target
    sec_source0, \* SpecSec: the source bytes before the copy
    sec_copied   \* SpecSec: copy_secrets_page has run

smp_vars == <<cpus, pc, it, cur, count, percpus, sev_features, vmsa_pa,
              requests, panic_msg, ap_pc, writers, observed, ap_state,
              started>>
cr_vars  == <<cr0, cr4, has_pge, cr0_hist, cr4_hist>>
sec_vars == <<sec_source, sec_target, sec_source0, sec_copied>>
vars     == <<smp_vars, ap_state, started, cr_vars, sec_vars>>

\* --------------------------------------------- secrets_page.rs: SpecSec
MaxByte == 1   \* largest byte value the memory contents are drawn from

\* struct SecretsPage, #[repr(C, packed)]: the fields in order, their sizes
\* in bytes, and whether the field is private (reserved_*)
SecretsPage ==
    <<[name |-> "version",          size |-> 4,    reserved |-> FALSE],
      [name |-> "gctxt",            size |-> 4,    reserved |-> FALSE],
      [name |-> "fms",              size |-> 4,    reserved |-> FALSE],
      [name |-> "reserved_00c",     size |-> 4,    reserved |-> TRUE],
      [name |-> "gosvw",            size |-> 16,   reserved |-> FALSE],
      [name |-> "vmpck0",           size |-> 32,   reserved |-> FALSE],
      [name |-> "vmpck1",           size |-> 32,   reserved |-> FALSE],
      [name |-> "vmpck2",           size |-> 32,   reserved |-> FALSE],
      [name |-> "vmpck3",           size |-> 32,   reserved |-> FALSE],
      [name |-> "reserved_0a0",     size |-> 96,   reserved |-> TRUE],
      [name |-> "vmsa_tweak_bmp",   size |-> 64,   reserved |-> FALSE],
      [name |-> "svsm_base",        size |-> 8,    reserved |-> FALSE],
      [name |-> "svsm_size",        size |-> 8,    reserved |-> FALSE],
      [name |-> "svsm_caa",         size |-> 8,    reserved |-> FALSE],
      [name |-> "svsm_max_version", size |-> 4,    reserved |-> FALSE],
      [name |-> "svsm_guest_vmpl",  size |-> 1,    reserved |-> FALSE],
      [name |-> "reserved_15d",     size |-> 3,    reserved |-> TRUE],
      [name |-> "tsc_factor",       size |-> 4,    reserved |-> FALSE],
      [name |-> "reserved_164",     size |-> 3740, reserved |-> TRUE]>>

\* packed layout: the offset of field i is the sum of the sizes before it
RECURSIVE FieldOffset(_)
FieldOffset(i) ==
    IF i = 1 THEN 0 ELSE FieldOffset(i - 1) + SecretsPage[i - 1].size

\* the field of SecretsPage that holds the byte at offset o, 0 if none does
FieldAt(o) ==
    LET in == {i \in DOMAIN SecretsPage :
                  /\ FieldOffset(i) <= o
                  /\ o < FieldOffset(i) + SecretsPage[i].size}
    IN  IF in = {} THEN 0 ELSE CHOOSE i \in in : TRUE

\* The byte offsets the memory contents of SpecSec are drawn over: the first
\* byte of version, of reserved_00c and of reserved_0a0, the last byte of
\* reserved_164, and the byte that follows the structure.
SecProbeOffsets == {0, 12, 160, 4095, 4096}
SecMemories == [SecProbeOffsets -> 0..MaxByte]

\* copy_secrets_page: *target = *table, the bytes *target holds afterwards
copy_secrets_page_pub_only(target, source) ==
    [o \in DOMAIN target |->
        IF FieldAt(o) # 0 /\ ~SecretsPage[FieldAt(o)].reserved
        THEN source[o] ELSE target[o]]

copy_secrets_page(target, source) ==
    [o \in DOMAIN target |->
        IF FieldAt(o) # 0 THEN source[o] ELSE target[o]]

CopySecretsPage ==
    /\ ~sec_copied
    /\ sec_target' = copy_secrets_page(sec_target, sec_source)
    /\ sec_copied' = TRUE
    /\ UNCHANGED <<sec_source, sec_source0, smp_vars, cr_vars>>

SecIdle ==
    /\ sec_source = <<>>
    /\ sec_target = <<>>
    /\ sec_source0 = <<>>
    /\ sec_copied = TRUE

\* ------------------------------------------------------- SpecCR: actions
Cr0Init ==
    /\ Len(cr0_hist) <= MaxInitCalls
    /\ cr0' = cr0_init(cr0)
    /\ cr0_hist' = Append(cr0_hist, cr0')
    /\ UNCHANGED <<cr4, has_pge, cr4_hist, smp_vars, sec_vars>>

Cr4Init ==
    /\ Len(cr4_hist) <= MaxInitCalls
    /\ cr4' = cr4_init(cr4, has_pge)
    /\ cr4_hist' = Append(cr4_hist, cr4')
    /\ UNCHANGED <<cr0, has_pge, cr0_hist, smp_vars, sec_vars>>

SmpIdle ==
    /\ cpus = <<>>
    /\ pc = "done"
    /\ it = 0
    /\ cur = 0
    /\ count = 0
    /\ percpus = <<>>
    /\ sev_features = 0
    /\ vmsa_pa = 0
    /\ requests = <<>>
    /\ panic_msg = ""
    /\ ap_pc = <<>>
    /\ writers = <<>>
    /\ observed = {}
    /\ ap_state = <<>>
    /\ started = <<>>

InitCR ==
    /\ cr0 \in SUBSET CR0ProbeBits
    /\ cr4 \in SUBSET CR4ProbeBits
    /\ has_pge \in BOOLEAN
    /\ cr0_hist = <<cr0>>
    /\ cr4_hist = <<cr4>>
    /\ SmpIdle
    /\ SecIdle

NextCR == Cr0Init \/ Cr4Init

SpecCR == InitCR /\ [][NextCR]_vars

CrIdle ==
    /\ cr0 = {}
    /\ cr4 = {}
    /\ has_pge = FALSE
    /\ cr0_hist = <<cr0>>
    /\ cr4_hist = <<cr4>>

InitSec ==
    /\ sec_source \in SecMemories
    /\ sec_target \in SecMemories
    /\ sec_source0 = sec_source
    /\ sec_copied = FALSE
    /\ SmpIdle
    /\ CrIdle

NextSec == CopySecretsPage

SpecSec == InitSec /\ [][NextSec]_vars

\* ------------------------------------------------ smp.rs: the orchestrator
PAGE_SIZE == 4096

\* ACPICPUInfo, the fields smp.rs reads
Descriptors == [apic_id : 0..MaxApicId, enabled : BOOLEAN]
DescriptorLists == UNION {[1..n -> Descriptors] : n \in 0..MaxCpus}

\* the closure of .filter() in start_secondary_cpus
filter_pred_enabled_only(c) == c.enabled

filter_pred(c) == c.apic_id # 0 /\ c.enabled

\* Iterator::next of cpus.iter().filter(..) with `from` descriptors consumed:
\* the index of the first later descriptor the closure accepts, 0 at the end
filter_next_last(list, from) ==
    LET hits == {i \in (from + 1)..Len(list) : filter_pred(list[i])}
    IN  IF hits = {} THEN 0 ELSE CHOOSE i \in hits : \A j \in hits : i >= j

filter_next(list, from) ==
    LET hits == {i \in (from + 1)..Len(list) : filter_pred(list[i])}
    IN  IF hits = {} THEN 0 ELSE CHOOSE i \in hits : \A j \in hits : i <= j

\* address of start_ap, the entry point of every AP
start_rip == "start_ap"

\* the feature bitmap init_svsm_vmsa stores in a context
SevFeatures == 1

\* a control block as PerCpu::alloc returns it; desc records the descriptor
\* whose start_cpu call allocated it
PerCpu_alloc(id, d) ==
    [apic_id |-> id, online |-> FALSE, setup |-> FALSE, desc |-> d,
     vmsa |-> [allocated |-> FALSE, paddr |-> 0, sev_features |-> 0,
               rip |-> "", enabled |-> FALSE]]

\* physical address of the context page of the n-th control block
VmsaPaddr(n) == n * PAGE_SIZE

\* start_cpu: the parameter apic_id and the local percpu
apic_id == cpus[cur].apic_id
percpu  == Len(percpus)

\* a failed expect(): the orchestrator panics with the message
expect_failed_skip(msg) ==
    /\ pc' = "for"
    /\ panic_msg' = msg

expect_failed(msg) ==
    /\ pc' = "panic"
    /\ panic_msg' = msg

\* start_secondary_cpus: one turn of the for loop, up to the call of
\* start_cpu, or the end of the loop and the final log line
ForNext ==
    /\ pc = "for"
    /\ LET n == filter_next(cpus, it)
       IN  IF n = 0
           THEN /\ it' = Len(cpus)
                /\ pc' = "done"
                /\ UNCHANGED cur
           ELSE /\ it' = n
                /\ cur' = n
                /\ pc' = "alloc"
    /\ UNCHANGED <<cpus, count, percpus, sev_features, vmsa_pa, requests,
                   panic_msg, ap_pc, writers, observed, ap_state, started, cr_vars, sec_vars>>

\* the registers a context starts with (init_svsm_vmsa), the baseline calls
\* its processor has made and the outcome of its setup_on_cpu
ApReset ==
    [cr0 |-> {CR0Flags_PE, CR0Flags_PG}, cr4 |-> {CR4Flags_PAE},
     cr0_inits |-> 0, cr4_inits |-> 0, setup |-> "none"]

\* start_cpu: PerCpu::alloc(apic_id).expect(..)
Alloc ==
    /\ pc = "alloc"
    /\ \E ok \in BOOLEAN :
         /\ started' = Append(started,
                [desc |-> cur, apic_id |-> apic_id, alloc_ok |-> ok])
         /\ IF ok
            THEN /\ percpus' = Append(percpus, PerCpu_alloc(apic_id, cur))
                 /\ ap_pc' = Append(ap_pc, "none")
                 /\ writers' = Append(writers, {})
                 /\ ap_state' = Append(ap_state, ApReset)
                 /\ pc' = "setup"
                 /\ UNCHANGED panic_msg
            ELSE /\ expect_failed("Failed to allocate AP per-cpu data")
                 /\ UNCHANGED <<percpus, ap_pc, writers, ap_state>>
    /\ UNCHANGED <<cpus, it, cur, count, sev_features, vmsa_pa, requests,
                   observed, cr_vars, sec_vars>>

\* start_cpu: percpu.setup().expect(..)
Setup_freeing ==
    /\ pc = "setup"
    /\ \E ok \in BOOLEAN :
         IF ok
         THEN /\ percpus' = [percpus EXCEPT ![percpu].setup = TRUE]
              /\ pc' = "alloc_vmsa"
              /\ UNCHANGED <<panic_msg, ap_pc, writers, ap_state>>
         ELSE /\ expect_failed("Failed to setup AP per-cpu area")
              /\ percpus' = SubSeq(percpus, 1, percpu - 1)
              /\ ap_pc' = SubSeq(ap_pc, 1, percpu - 1)
              /\ writers' = SubSeq(writers, 1, percpu - 1)
              /\ ap_state' = SubSeq(ap_state, 1, percpu - 1)
    /\ UNCHANGED <<cpus, it, cur, count, sev_features, vmsa_pa, requests,
                   observed, started, cr_vars, sec_vars>>

Setup ==
    /\ pc = "setup"
    /\ \E ok \in BOOLEAN :
         IF ok
         THEN /\ percpus' = [percpus EXCEPT ![percpu].setup = TRUE]
              /\ pc' = "alloc_vmsa"
              /\ UNCHANGED panic_msg
         ELSE /\ expect_failed("Failed to setup AP per-cpu area")
              /\ UNCHANGED percpus
    /\ UNCHANGED <<cpus, it, cur, count, sev_features, vmsa_pa, requests,
                   ap_pc, writers, observed, ap_state, started, cr_vars, sec_vars>>

\* start_cpu: percpu.alloc_svsm_vmsa().expect(..)
AllocVmsa ==
    /\ pc = "alloc_vmsa"
    /\ \E ok \in BOOLEAN :
         IF ok
         THEN /\ percpus' = [percpus EXCEPT
                    ![percpu].vmsa.allocated = TRUE,
                    ![percpu].vmsa.paddr = VmsaPaddr(percpu)]
              /\ pc' = "init_vmsa"
              /\ UNCHANGED panic_msg
         ELSE /\ expect_failed("Failed to allocate AP SVSM VMSA")
              /\ UNCHANGED percpus
    /\ UNCHANGED <<cpus, it, cur, count, sev_features, vmsa_pa, requests,
                   ap_pc, writers, observed, ap_state, started, cr_vars, sec_vars>>

\* start_cpu: get_svsm_vmsa().unwrap(); init_svsm_vmsa(vmsa.vmsa())
InitVmsa ==
    /\ pc = "init_vmsa"
    /\ percpus[percpu].vmsa.allocated
    /\ percpus' = [percpus EXCEPT ![percpu].vmsa.sev_features = SevFeatures]
    /\ pc' = "prepare_vmsa"
    /\ UNCHANGED <<cpus, it, cur, count, sev_features, vmsa_pa, requests,
                   panic_msg, ap_pc, writers, observed, ap_state, started, cr_vars, sec_vars>>

\* start_cpu: percpu.prepare_svsm_vmsa(start_rip)
PrepareVmsa ==
    /\ pc = "prepare_vmsa"
    /\ percpus' = [percpus EXCEPT ![percpu].vmsa.rip = start_rip]
    /\ pc' = "read_back"
    /\ UNCHANGED <<cpus, it, cur, count, sev_features, vmsa_pa, requests,
                   panic_msg, ap_pc, writers, observed, ap_state, started, cr_vars, sec_vars>>

\* start_cpu: let sev_features = ..; let vmsa_pa = ..
ReadBack ==
    /\ pc = "read_back"
    /\ sev_features' = percpus[percpu].vmsa.sev_features
    /\ vmsa_pa' = percpus[percpu].vmsa.paddr
    /\ pc' = "enable"
    /\ UNCHANGED <<cpus, it, cur, count, percpus, requests, panic_msg,
                   ap_pc, writers, observed, ap_state, started, cr_vars, sec_vars>>

\* start_cpu: vmsa.vmsa().enable()
Enable_skipped ==
    /\ pc = "enable"
    /\ pc' = "ap_create"
    /\ UNCHANGED <<cpus, it, cur, count, percpus, sev_features, vmsa_pa,
                   requests, panic_msg, ap_pc, writers, observed, ap_state,
                   started, cr_vars, sec_vars>>

Enable ==
    /\ pc = "enable"
    /\ percpus' = [percpus EXCEPT ![percpu].vmsa.enabled = TRUE]
    /\ pc' = "ap_create"
    /\ UNCHANGED <<cpus, it, cur, count, sev_features, vmsa_pa, requests,
                   panic_msg, ap_pc, writers, observed, ap_state, started, cr_vars, sec_vars>>

\* start_cpu: this_cpu_mut().ghcb().ap_create(..).expect(..); on success the
\* hypervisor holds a processor for the context at vmsa_pa
ApCreate ==
    /\ pc = "ap_create"
    /\ \E ok \in BOOLEAN :
         /\ requests' = Append(requests,
                [vmsa_pa |-> vmsa_pa, apic_id |-> apic_id, vmpl |-> 0,
                 sev_features |-> sev_features, desc |-> cur, ok |-> ok,
                 issuer |-> 0])
         /\ IF ok
            THEN /\ ap_pc' = [k \in DOMAIN ap_pc |->
                        IF /\ percpus[k].vmsa.allocated
                           /\ percpus[k].vmsa.paddr = vmsa_pa
                        THEN "created" ELSE ap_pc[k]]
                 /\ pc' = "poll"
                 /\ UNCHANGED panic_msg
            ELSE /\ expect_failed("Failed to launch secondary CPU")
                 /\ UNCHANGED ap_pc
    /\ UNCHANGED <<cpus, it, cur, count, percpus, sev_features, vmsa_pa,
                   writers, observed, ap_state, started, cr_vars, sec_vars>>

\* start_cpu: one turn of the poll loop; when the flag is seen set the loop
\* breaks, start_cpu returns and start_secondary_cpus counts the launch
Poll_nocheck ==
    /\ pc = "poll"
    /\ pc' = "for"
    /\ count' = count + 1
    /\ UNCHANGED <<cpus, it, cur, percpus, sev_features, vmsa_pa, requests,
                   panic_msg, ap_pc, writers, observed, ap_state, started, cr_vars, sec_vars>>

Poll_nocount ==
    /\ pc = "poll"
    /\ IF percpus[percpu].online
       THEN /\ pc' = "for"
            /\ observed' = observed \cup {percpu}
       ELSE UNCHANGED <<pc, observed>>
    /\ UNCHANGED <<cpus, it, cur, count, percpus, sev_features, vmsa_pa,
                   requests, panic_msg, ap_pc, writers, ap_state, started, cr_vars, sec_vars>>

Poll_giveup ==
    /\ pc = "poll"
    /\ IF percpus[percpu].online
       THEN /\ pc' = "for"
            /\ count' = count + 1
            /\ observed' = observed \cup {percpu}
       ELSE /\ pc' = "for"
            /\ UNCHANGED <<count, observed>>
    /\ UNCHANGED <<cpus, it, cur, percpus, sev_features, vmsa_pa, requests,
                   panic_msg, ap_pc, writers, ap_state, started, cr_vars,
                   sec_vars>>

Poll_hoisted ==
    /\ pc = "poll"
    /\ UNCHANGED vars

Poll ==
    /\ pc = "poll"
    /\ IF percpus[percpu].online
       THEN /\ pc' = "for"
            /\ count' = count + 1
            /\ observed' = observed \cup {percpu}
       ELSE UNCHANGED <<pc, count, observed>>
    /\ UNCHANGED <<cpus, it, cur, percpus, sev_features, vmsa_pa, requests,
                   panic_msg, ap_pc, writers, ap_state, started, cr_vars, sec_vars>>

\* ---------------------------------------------------- smp.rs: the APs
\* this_cpu_mut() on the processor running the context of control block k
this_cpu(k) == k

\* the identifier of the processor the hypervisor runs context k as: the
\* target of the accepted launch request for that context
vcpu_of(k) ==
    LET r == CHOOSE r \in {requests[i] : i \in DOMAIN requests} :
                  r.ok /\ r.vmsa_pa = percpus[k].vmsa.paddr
    IN  r.apic_id

\* the hypervisor schedules an enabled context it was asked to create
HvSchedule(k) ==
    /\ ap_pc[k] = "created"
    /\ percpus[k].vmsa.enabled
    /\ ap_pc' = [ap_pc EXCEPT ![k] = "start_ap"]
    /\ UNCHANGED <<cpus, pc, it, cur, count, percpus, sev_features, vmsa_pa,
                   requests, panic_msg, writers, observed, ap_state, started, cr_vars, sec_vars>>

\* PerCpu::setup_on_cpu on the processor with state st: the control-register
\* baseline, then the fallible rest of the processor-local setup
setup_on_cpu(st, ok) ==
    [st EXCEPT !.cr0 = cr0_init(st.cr0),
               !.cr4 = cr4_init(st.cr4, has_pge),
               !.cr0_inits = st.cr0_inits + 1,
               !.cr4_inits = st.cr4_inits + 1,
               !.setup = IF ok THEN "ok" ELSE "failed"]

\* start_ap: this_cpu_mut().setup_on_cpu().expect(..)
ApSetupOnCpu_skipped(k) ==
    /\ ap_pc[k] = "start_ap"
    /\ ap_pc' = [ap_pc EXCEPT ![k] = "set_online"]
    /\ UNCHANGED <<cpus, pc, it, cur, count, percpus, sev_features, vmsa_pa,
                   requests, panic_msg, writers, observed, ap_state, started,
                   cr_vars, sec_vars>>

ApSetupOnCpu_unchecked(k) ==
    /\ ap_pc[k] = "start_ap"
    /\ \E ok \in BOOLEAN :
         /\ ap_state' = [ap_state EXCEPT
                ![this_cpu(k)] = setup_on_cpu(ap_state[this_cpu(k)], ok)]
         /\ ap_pc' = [ap_pc EXCEPT ![k] = "set_online"]
    /\ UNCHANGED <<cpus, pc, it, cur, count, percpus, sev_features, vmsa_pa,
                   requests, panic_msg, writers, observed, started, cr_vars,
                   sec_vars>>

ApSetupOnCpu(k) ==
    /\ ap_pc[k] = "start_ap"
    /\ \E ok \in BOOLEAN :
         /\ ap_state' = [ap_state EXCEPT
                ![this_cpu(k)] = setup_on_cpu(ap_state[this_cpu(k)], ok)]
         /\ ap_pc' = [ap_pc EXCEPT ![k] = IF ok THEN "set_online" ELSE "panic"]
    /\ UNCHANGED <<cpus, pc, it, cur, count, percpus, sev_features, vmsa_pa,
                   requests, panic_msg, writers, observed, started, cr_vars,
                   sec_vars>>

\* start_ap: the life-sign, this_cpu_mut().set_online() and the call of
\* request_loop(), the steady state, which does not return (the panic! after
\* the call is not reached)
ApSetOnline_first(k) ==
    /\ ap_pc[k] = "set_online"
    /\ percpus' = [percpus EXCEPT ![1].online = TRUE]
    /\ writers' = [writers EXCEPT ![1] = writers[1] \cup {vcpu_of(k)}]
    /\ ap_pc' = [ap_pc EXCEPT ![k] = "request_loop"]
    /\ UNCHANGED <<cpus, pc, it, cur, count, sev_features, vmsa_pa,
                   requests, panic_msg, observed, ap_state, started, cr_vars, sec_vars>>

ApSetOnline(k) ==
    /\ ap_pc[k] = "set_online"
    /\ percpus' = [percpus EXCEPT ![this_cpu(k)].online = TRUE]
    /\ writers' = [writers EXCEPT
           ![this_cpu(k)] = writers[this_cpu(k)] \cup {vcpu_of(k)}]
    /\ ap_pc' = [ap_pc EXCEPT ![k] = "request_loop"]
    /\ UNCHANGED <<cpus, pc, it, cur, count, sev_features, vmsa_pa,
                   requests, panic_msg, observed, ap_state, started, cr_vars, sec_vars>>

\* ------------------------------------------------------------------ Spec
Init ==
    /\ cpus \in DescriptorLists
    /\ pc = "for"
    /\ it = 0
    /\ cur = 0
    /\ count = 0
    /\ percpus = <<>>
    /\ sev_features = 0
    /\ vmsa_pa = 0
    /\ requests = <<>>
    /\ panic_msg = ""
    /\ ap_pc = <<>>
    /\ writers = <<>>
    /\ observed = {}
    /\ ap_state = <<>>
    /\ started = <<>>
    /\ CrIdle
    /\ SecIdle

Next ==
    \/ ForNext
    \/ Alloc
    \/ Setup
    \/ AllocVmsa
    \/ InitVmsa
    \/ PrepareVmsa
    \/ ReadBack
    \/ Enable
    \/ ApCreate
    \/ Poll
    \/ \E k \in DOMAIN ap_pc : HvSchedule(k)
    \/ \E k \in DOMAIN ap_pc : ApSetupOnCpu(k)
    \/ \E k \in DOMAIN ap_pc : ApSetOnline(k)

Spec == Init /\ [][Next]_vars

\* ------------------------------------------------------------- SpecFair
\* the steps of the orchestrating processor
Orchestrator ==
    \/ ForNext
    \/ Alloc
    \/ Setup
    \/ AllocVmsa
    \/ InitVmsa
    \/ PrepareVmsa
    \/ ReadBack
    \/ Enable
    \/ ApCreate
    \/ Poll

\* the hypervisor's step for the context of control block k
Hypervisor(k) == k \in DOMAIN ap_pc /\ HvSchedule(k)

\* the steps of the processor running the context of control block k
Secondary(k) ==
    /\ k \in DOMAIN ap_pc
    /\ (ApSetupOnCpu(k) \/ ApSetOnline(k))

\* every processor keeps executing, and the hypervisor schedules every
\* context it accepted a launch request for
Fairness ==
    /\ WF_vars(Orchestrator)
    /\ \A k \in 1..MaxFairCpus : WF_vars(Hypervisor(k))
    /\ \A k \in 1..MaxFairCpus : WF_vars(Secondary(k))

InitFair == Init /\ Len(cpus) <= MaxFairCpus

SpecFair == InitFair /\ [][Next]_vars /\ Fairness

\* ================================================================ claims
\* the descriptors start_secondary_cpus is to launch, by their own fields
EnabledSecondary(c) == c.enabled = TRUE /\ c.apic_id # 0
RequestIds == [i \in DOMAIN requests |-> requests[i].apic_id]
FilteredIds ==
    LET f == SelectSeq(cpus, EnabledSecondary)
    IN  [i \in DOMAIN f |-> f[i].apic_id]
Scenario1 ==
    <<[apic_id |-> 0, enabled |-> TRUE], [apic_id |-> 1, enabled |-> TRUE],
      [apic_id |-> 2, enabled |-> FALSE], [apic_id |-> 3, enabled |-> TRUE]>>

\* C1: once start_secondary_cpus has returned, every descriptor with
\* enabled = true and identifier != 0 has a control block whose online flag
\* is true.
C1_EnabledOnlineAtReturn ==
    pc = "done" =>
        \A i \in DOMAIN cpus :
            EnabledSecondary(cpus[i]) =>
                \E k \in DOMAIN percpus :
                    /\ percpus[k].desc = i
                    /\ percpus[k].apic_id = cpus[i].apic_id
                    /\ percpus[k].online

C1_Witness ==
    /\ pc = "done"
    /\ Cardinality({i \in DOMAIN cpus : EnabledSecondary(cpus[i])}) >= 2
    /\ \A k \in DOMAIN percpus : percpus[k].online

\* C2: in every state, a descriptor with enabled = false or identifier 0
\* has no control block allocated for it and no launch request issued for it.
C2_FilteredOutUntouched ==
    \A i \in DOMAIN cpus :
        (cpus[i].enabled = FALSE \/ cpus[i].apic_id = 0) =>
            /\ \A k \in DOMAIN percpus : percpus[k].desc # i
            /\ \A r \in DOMAIN requests : requests[r].desc # i
            /\ (pc \notin {"for", "done"} => cur # i)
            /\ (cpus[i].apic_id = 0 =>
                    /\ \A k \in DOMAIN percpus : percpus[k].apic_id # 0
                    /\ \A r \in DOMAIN requests : requests[r].apic_id # 0)

C2_Witness ==
    /\ pc = "done"
    /\ \E i, j, l \in DOMAIN cpus :
          /\ i < l /\ j < l
          /\ cpus[i].enabled = FALSE /\ cpus[i].apic_id # 0
          /\ cpus[j].enabled = TRUE /\ cpus[j].apic_id = 0
          /\ \E r \in DOMAIN requests : requests[r].desc = l

\* C3: the target identifiers of the launch requests, in the order issued,
\* are a prefix of the input list filtered to enabled, non-zero identifiers;
\* on return they are that whole filtered list (Scenario 1: 1 then 3).
C3_LaunchOrder ==
    /\ Len(RequestIds) <= Len(FilteredIds)
    /\ RequestIds = SubSeq(FilteredIds, 1, Len(RequestIds))
    /\ \A r \in DOMAIN requests : cpus[requests[r].desc].apic_id = RequestIds[r]
    /\ \A r, q \in DOMAIN requests : r < q => requests[r].desc < requests[q].desc
    /\ (pc = "done" => RequestIds = FilteredIds)
    /\ (pc = "done" /\ cpus = Scenario1 => RequestIds = <<1, 3>>)

C3_Witness ==
    /\ pc = "done"
    /\ cpus = Scenario1
    /\ RequestIds = <<1, 3>>

\* C4: when control-block allocation, per-CPU area setup or context
\* allocation fails in a start_cpu call, the orchestrator is halted, that
\* call has issued no launch request, and no later descriptor has a control
\* block or a launch request.
AllocationFailures ==
    {"Failed to allocate AP per-cpu data", "Failed to setup AP per-cpu area",
     "Failed to allocate AP SVSM VMSA"}

C5_Count ==
    /\ count = Cardinality(observed)
    /\ \A k \in observed :
          /\ percpus[k].online
          /\ \E r \in DOMAIN requests :
                requests[r].ok /\ requests[r].vmsa_pa = percpus[k].vmsa.paddr
    /\ (pc = "done" =>
            count = Cardinality({i \in DOMAIN cpus : EnabledSecondary(cpus[i])}))
    /\ (pc = "done" /\ cpus = Scenario1 => count = 2)

C5_Witness ==
    /\ pc = "done"
    /\ cpus = Scenario1
    /\ count = 2

\* C6: a control block's online flag starts false, is written only by the
\* processor the block represents, never by the orchestrator (identifier 0)
\* or another processor, and once true stays true.
C6_OnlineSingleWriter ==
    [][\A k \in DOMAIN percpus' :
          /\ writers'[k] \subseteq {percpus'[k].apic_id}
          /\ 0 \notin writers'[k]
          /\ (writers'[k] = {} => ~percpus'[k].online)
          /\ (k \notin DOMAIN percpus => ~percpus'[k].online)
          /\ (k \in DOMAIN percpus =>
                /\ (percpus[k].online => percpus'[k].online)
                /\ (percpus'[k].online # percpus[k].online =>
                        ap_pc[k] = "set_online" /\ ap_pc'[k] = "request_loop"))
      ]_vars

C6_Witness ==
    /\ Len(percpus) >= 2
    /\ percpus[1].online /\ writers[1] = {percpus[1].apic_id}
    /\ percpus[2].online /\ writers[2] = {percpus[2].apic_id}
    /\ percpus[1].apic_id # percpus[2].apic_id

\* C7: after cr0_init, whatever CR0 held, WP is set and NW and CD are clear;
\* initial bits {PE, NW, CD} give {PE, WP}.
C7_Cr0Forced ==
    Len(cr0_hist) >= 2 =>
        /\ CR0Flags_WP \in cr0
        /\ CR0Flags_NW \notin cr0
        /\ CR0Flags_CD \notin cr0
        /\ (cr0_hist[1] = {CR0Flags_PE, CR0Flags_NW, CR0Flags_CD} =>
                cr0 = {CR0Flags_PE, CR0Flags_WP})

C7_Witness ==
    /\ Len(cr0_hist) = 2
    /\ cr0_hist[1] = {CR0Flags_PE, CR0Flags_NW, CR0Flags_CD}
    /\ cr0 = {CR0Flags_PE, CR0Flags_WP}

\* C8 as claimed: after cr4_init PSE is set, and PGE is set if and only if
\* cpu_has_pge reports support.
C8_PgeIffSupported ==
    Len(cr4_hist) >= 2 =>
        /\ CR4Flags_PSE \in cr4
        /\ (CR4Flags_PGE \in cr4 <=> has_pge)

\* C8 amended: after cr4_init PSE is set, and PGE is set if and only if
\* cpu_has_pge reports support or PGE was already set before the call; with
\* PGE unsupported and initial bits {} the result is {PSE} only.
C8_PgeIffSupportedOrSet ==
    Len(cr4_hist) >= 2 =>
        /\ CR4Flags_PSE \in cr4
        /\ (CR4Flags_PGE \in cr4 <=> (has_pge \/ CR4Flags_PGE \in cr4_hist[1]))
        /\ (~has_pge /\ cr4_hist[1] = {} => cr4 = {CR4Flags_PSE})

C8_Witness ==
    /\ Len(cr4_hist) = 2
    /\ ~has_pge
    /\ cr4_hist[1] = {}
    /\ cr4 = {CR4Flags_PSE}

\* C9: every bit of the 64-bit register other than the ones the routine
\* forces (WP, NW, CD for cr0_init; PSE and, when supported, PGE for
\* cr4_init) has the same value after the call as before it.
C9_OtherBitsPreserved ==
    /\ \A n \in 2..Len(cr0_hist) :
          \A b \in (0..63) \ {CR0Flags_WP, CR0Flags_NW, CR0Flags_CD} :
             b \in cr0_hist[n] <=> b \in cr0_hist[n - 1]
    /\ \A n \in 2..Len(cr4_hist) :
          \A b \in (0..63) \ ({CR4Flags_PSE} \cup
                              (IF has_pge THEN {CR4Flags_PGE} ELSE {})) :
             b \in cr4_hist[n] <=> b \in cr4_hist[n - 1]

\* C10: cr0_init and cr4_init are idempotent: the register after the second
\* of two calls in a row equals the register after the first.
C10_Idempotent ==
    /\ \A n \in 3..Len(cr0_hist) : cr0_hist[n] = cr0_hist[2]
    /\ \A n \in 3..Len(cr4_hist) : cr4_hist[n] = cr4_hist[2]

C10_Witness ==
    /\ Len(cr0_hist) >= 3
    /\ Len(cr4_hist) >= 3
    /\ cr0_hist[2] # cr0_hist[1]
    /\ cr4_hist[2] # cr4_hist[1]
    /\ cr0 = cr0_hist[2]
    /\ cr4 = cr4_hist[2]

\* C11: after copy_secrets_page the destination equals the source on every
\* byte of the 4096-byte structure, reserved padding included, and the source
\* is as it was before the copy.
C11_CopyByteIdentical ==
    sec_copied =>
        /\ \A o \in DOMAIN sec_target :
              o < 4096 => sec_target[o] = sec_source0[o]
        /\ sec_source = sec_source0

C11_Witness ==
    /\ sec_copied
    /\ sec_source0[12] = 1 /\ sec_source0[4095] = 1 /\ sec_source0[0] = 0
    /\ sec_target[12] = 1 /\ sec_target[4095] = 1 /\ sec_target[0] = 0
    /\ sec_target[4096] # sec_source[4096]

C13_OnlineOnlyAfterSetup ==
    \A k \in DOMAIN percpus :
        /\ (percpus[k].online => ap_state[k].setup = "ok")
        /\ (ap_pc[k] = "request_loop" => ap_state[k].setup = "ok")
        /\ (ap_state[k].setup = "failed" =>
                /\ ~percpus[k].online
                /\ writers[k] = {}
                /\ ap_pc[k] = "panic")

C13_Witness ==
    /\ Len(percpus) >= 2
    /\ percpus[1].online /\ ap_state[1].setup = "ok"
    /\ ap_state[2].setup = "failed" /\ ~percpus[2].online
    /\ pc = "poll"

\* the control blocks a launch request has been issued for and whose online
\* flag is not set
LaunchPending ==
    {k \in DOMAIN percpus :
        /\ ~percpus[k].online
        /\ \E r \in DOMAIN requests : requests[r].desc = percpus[k].desc}

\* C14: launching is strictly sequential: at most one processor is
\* launch-requested and not yet online, the orchestrator is past the poll of
\* a request only when none is, so it allocates and requests the next one
\* only then, and every launch request is issued by the orchestrating
\* processor (identifier 0).
C14_Sequential ==
    /\ Cardinality(LaunchPending) <= 1
    /\ LaunchPending \subseteq {percpu}
    /\ (pc \notin {"poll", "panic"} => LaunchPending = {})
    /\ \A k \in DOMAIN percpus :
          k < percpu => percpus[k].online /\ k \in observed
    /\ \A r \in DOMAIN requests : requests[r].issuer = 0

C14_Witness ==
    /\ pc = "ap_create"
    /\ Len(percpus) = 3
    /\ Len(requests) = 2
    /\ percpus[1].online /\ percpus[2].online

\* C15: in start_cpu the context is initialised and pointed at start_ap, then
\* the feature bitmap and physical address are read back, then the context is
\* enabled, then the request is issued; every request carries its context's
\* physical address, the target identifier, slot 0 and its context's feature
\* bitmap, and is for an enabled context.
C15_LaunchPayloadAndOrder ==
    /\ \A r \in DOMAIN requests :
          \E k \in DOMAIN percpus :
             /\ percpus[k].desc = requests[r].desc
             /\ percpus[k].vmsa.allocated
             /\ percpus[k].vmsa.enabled
             /\ percpus[k].vmsa.rip = "start_ap"
             /\ percpus[k].vmsa.sev_features # 0
             /\ requests[r].vmsa_pa = percpus[k].vmsa.paddr
             /\ requests[r].apic_id = cpus[requests[r].desc].apic_id
             /\ requests[r].apic_id = percpus[k].apic_id
             /\ requests[r].vmpl = 0
             /\ requests[r].sev_features = percpus[k].vmsa.sev_features
    /\ (pc = "read_back" =>
            /\ percpus[percpu].vmsa.sev_features # 0
            /\ percpus[percpu].vmsa.rip = "start_ap"
            /\ ~percpus[percpu].vmsa.enabled)
    /\ (pc = "enable" =>
            /\ sev_features = percpus[percpu].vmsa.sev_features
            /\ vmsa_pa = percpus[percpu].vmsa.paddr
            /\ ~percpus[percpu].vmsa.enabled)
    /\ (pc \in {"setup", "alloc_vmsa", "init_vmsa", "prepare_vmsa",
                "read_back", "enable", "ap_create"} =>
            \A r \in DOMAIN requests : requests[r].desc # cur)
    /\ (pc = "ap_create" => percpus[percpu].vmsa.enabled)

C15_Witness ==
    /\ Len(requests) = 2
    /\ requests[1].ok /\ requests[2].ok
    /\ requests[1].apic_id # requests[2].apic_id
    /\ requests[1].vmsa_pa # requests[2].vmsa_pa
    /\ requests[2].vmsa_pa = percpus[2].vmsa.paddr

\* C16: for any descriptor list, each processor identifier has at most one
\* control block and at most one launch request (and so no step of its
\* bring-up is taken a second time).
C16_OnePerIdentifier ==
    /\ \A k, l \in DOMAIN percpus :
          percpus[k].apic_id = percpus[l].apic_id => k = l
    /\ \A r, q \in DOMAIN requests :
          requests[r].apic_id = requests[q].apic_id => r = q

\* C17 as claimed: a control block exists for an identifier if and only if
\* start_cpu for that identifier has been initiated.
C17_BlockIffInitiated ==
    \A id \in 0..MaxApicId :
        (\E k \in DOMAIN percpus : percpus[k].apic_id = id)
            <=> (\E s \in DOMAIN started : started[s].apic_id = id)

\* C17 amended: a control block exists for an identifier if and only if a
\* start_cpu call for that identifier has been initiated and its
\* PerCpu::alloc succeeded; the block of every such call is still there, so
\* none is ever removed.
C17_BlockIffAllocated ==
    /\ \A id \in 0..MaxApicId :
          (\E k \in DOMAIN percpus : percpus[k].apic_id = id)
              <=> (\E s \in DOMAIN started :
                      started[s].apic_id = id /\ started[s].alloc_ok)
    /\ \A s \in DOMAIN started :
          started[s].alloc_ok =>
              \E k \in DOMAIN percpus :
                 /\ percpus[k].desc = started[s].desc
                 /\ percpus[k].apic_id = started[s].apic_id
    /\ \A k \in DOMAIN percpus :
          \E s \in DOMAIN started :
             started[s].desc = percpus[k].desc /\ started[s].alloc_ok

C17_Witness ==
    /\ Len(started) = 3
    /\ started[1].alloc_ok /\ started[2].alloc_ok /\ ~started[3].alloc_ok
    /\ Len(percpus) = 2
    /\ \A k \in 1..2 : percpus[k].apic_id # started[3].apic_id
    /\ pc = "panic"

\* C18: when ap_create fails the orchestrator is halted: it is not in the
\* poll for that identifier and never saw its flag, it made that one request
\* only, no later descriptor has a control block or a request, and it has not
\* returned a count.
C18_LaunchFailureHalts ==
    panic_msg = "Failed to launch secondary CPU" =>
        /\ pc = "panic"
        /\ requests # <<>>
        /\ ~requests[Len(requests)].ok
        /\ requests[Len(requests)].desc = cur
        /\ Cardinality({r \in DOMAIN requests : requests[r].desc = cur}) = 1
        /\ \A r \in DOMAIN requests : requests[r].desc <= cur
        /\ \A k \in DOMAIN percpus : percpus[k].desc <= cur
        /\ percpu \notin observed
        /\ ap_pc[percpu] = "none"
        /\ ~percpus[percpu].online
        /\ count = Len(requests) - 1

C18_Witness ==
    /\ panic_msg = "Failed to launch secondary CPU"
    /\ pc = "panic"
    /\ Len(requests) = 2
    /\ \E i \in DOMAIN cpus : i > cur /\ EnabledSecondary(cpus[i])

\* C19: while a launch-requested processor has not set its online flag the
\* orchestrator is in the poll of that processor: it has launched no later
\* descriptor and has not returned a count; there is no other way out of the
\* poll, also when that processor was never scheduled or aborted in its setup.
C19_PollHasNoEscape ==
    \A k \in DOMAIN percpus :
        ap_pc[k] # "none" /\ ~percpus[k].online =>
            /\ pc = "poll"
            /\ percpu = k
            /\ k \notin observed
            /\ count = k - 1
            /\ \A r \in DOMAIN requests : requests[r].desc <= percpus[k].desc
            /\ \A l \in DOMAIN percpus : percpus[l].desc <= percpus[k].desc

C19_Witness ==
    /\ pc = "poll"
    /\ ap_pc[percpu] = "panic"
    /\ ~percpus[percpu].online
    /\ percpu = 2
    /\ \E i \in DOMAIN cpus : i > cur /\ EnabledSecondary(cpus[i])

\* a fallible step of the orchestrator or of a secondary processor failed
FallibleStepFailed ==
    \/ pc = "panic"
    \/ \E k \in DOMAIN ap_state : ap_state[k].setup = "failed"

\* C20: under fairness, unless a fallible step fails, start_secondary_cpus
\* eventually returns, and every processor whose launch request was accepted
\* eventually is in the request loop.
C20_BringUpTerminates ==
    /\ <>(pc = "done" \/ FallibleStepFailed)
    /\ \A k \in 1..MaxFairCpus :
          (k \in DOMAIN ap_pc /\ ap_pc[k] = "created")
              ~> (/\ k \in DOMAIN ap_pc
                  /\ (\/ ap_pc[k] = "request_loop"
                      \/ ap_state[k].setup = "failed"))

C20_Witness ==
    /\ pc = "done"
    /\ Len(percpus) >= 2
    /\ \A k \in DOMAIN ap_pc : ap_pc[k] = "request_loop"

====
